---- MODULE Spec2Model ----
(***************************************************************************)
(* Model of descargas_universal_win.py: the month job                      *)
(* (run_download_month and its nested helpers), the ledger summary         *)
(* (summarize_log, write_summary) and the Tk shell's month queue (App).    *)
(*                                                                         *)
(* Text is modelled as a sequence of one-character strings, so that the    *)
(* string operations of the source (strip, upper, slugify, Path.stem,      *)
(* format, regular-expression search) are computed rather than assumed.    *)
(***************************************************************************)
EXTENDS Integers, Sequences, FiniteSets, TLC

(***************************************************************************)
(* Bounds of the model.                                                    *)
(***************************************************************************)
\* largest number of rows of a result list
MaxTotal == 3
\* largest number of accepted next-clicks the site has not yet applied
MaxPending == 1
\* largest number of rows resolved in a resolver run
MaxDocs == 3
\* largest number of data rows of a ledger handed to summarize_log
MaxRows == 2

(***************************************************************************)
(* Text helpers (Python str semantics on character sequences).             *)
(***************************************************************************)
LowerSeq == << "a","b","c","d","e","f","g","h","i","j","k","l","m",
               "n","o","p","q","r","s","t","u","v","w","x","y","z" >>
UpperSeq == << "A","B","C","D","E","F","G","H","I","J","K","L","M",
               "N","O","P","Q","R","S","T","U","V","W","X","Y","Z" >>
DigitSeq == << "0","1","2","3","4","5","6","7","8","9" >>

Range(s) == { s[i] : i \in 1..Len(s) }
IndexOf(c, s) == CHOOSE i \in 1..Len(s) : s[i] = c
LowerSet == Range(LowerSeq)
UpperSet == Range(UpperSeq)
DigitSet == Range(DigitSeq)
SpaceSet == { " ", "\t", "\n", "\r" }
\* \w of the re module: letters, digits and the underscore
WordSet == LowerSet \cup UpperSet \cup DigitSet \cup { "_" }
IsLower(c) == c \in LowerSet
IsUpper(c) == c \in UpperSet
IsDigit(c) == c \in DigitSet

UpperMap == [ c \in LowerSet |-> UpperSeq[IndexOf(c, LowerSeq)] ]
LowerMap == [ c \in UpperSet |-> LowerSeq[IndexOf(c, UpperSeq)] ]
DigitMap == [ c \in DigitSet |-> IndexOf(c, DigitSeq) - 1 ]
UpperChar(c) == IF IsLower(c) THEN UpperMap[c] ELSE c
LowerChar(c) == IF IsUpper(c) THEN LowerMap[c] ELSE c
DigitVal(c) == DigitMap[c]

\* str.upper() and str.lower()
Upper(s) == [ i \in 1..Len(s) |-> UpperChar(s[i]) ]
Lower(s) == [ i \in 1..Len(s) |-> LowerChar(s[i]) ]

\* str.strip(chars) for a set of characters
StripSet(s, cs) ==
    LET keep == { i \in 1..Len(s) : s[i] \notin cs }
    IN  IF keep = {} THEN << >>
        ELSE LET lo == CHOOSE i \in keep : \A j \in keep : i <= j
                 hi == CHOOSE i \in keep : \A j \in keep : j <= i
             IN  SubSeq(s, lo, hi)
\* str.strip()
Strip(s) == StripSet(s, SpaceSet)

StartsWith(s, p) == Len(s) >= Len(p) /\ SubSeq(s, 1, Len(p)) = p
EndsWith(s, p) == Len(s) >= Len(p) /\ SubSeq(s, Len(s) - Len(p) + 1, Len(s)) = p

\* str(n) for a natural number
RECURSIVE Dec(_)
Dec(n) == IF n < 10 THEN << DigitSeq[n + 1] >>
          ELSE Dec(n \div 10) \o << DigitSeq[(n % 10) + 1] >>
\* f"{n:03d}"
Fmt03(n) == LET d == Dec(n)
            IN  IF Len(d) >= 3 THEN d
                ELSE IF Len(d) = 2 THEN << "0" >> \o d ELSE << "0", "0" >> \o d
\* int(s) for a run of decimal digits
RECURSIVE ToInt(_)
ToInt(s) == IF s = << >> THEN 0
            ELSE 10 * ToInt(SubSeq(s, 1, Len(s) - 1)) + DigitVal(s[Len(s)])

\* code-point order of the characters used by the model (ASCII order)
AsciiSeq == << "\t", "\n", "\r", " ", "%", "-", ".", "/" >> \o DigitSeq \o << ":", "<" >>
            \o UpperSeq \o << "_" >> \o LowerSeq
CodeMap == [ c \in Range(AsciiSeq) |-> IndexOf(c, AsciiSeq) ]
Code(c) == CodeMap[c]
\* a < b for Python strings (lexicographic by code point)
RECURSIVE StrLess(_, _)
StrLess(a, b) ==
    IF b = << >> THEN FALSE
    ELSE IF a = << >> THEN TRUE
    ELSE IF a[1] # b[1] THEN Code(a[1]) < Code(b[1])
    ELSE StrLess(Tail(a), Tail(b))

\* largest j >= i - 1 such that every character of t[i..j] is in the class S
RunEnd(t, i, S) ==
    LET js == { j \in (i - 1)..Len(t) : \A k \in i..j : t[k] \in S }
    IN  CHOOSE j \in js : \A k \in js : k <= j

(***************************************************************************)
(* slugify, lines 42-44.                                                   *)
(***************************************************************************)
DefaultSlug == << "d","o","c","u","m","e","n","t","o",".","p","d","f" >>
\* a character kept by the pattern [^\w.\-]+
SafeSet == WordSet \cup { ".", "-" }
IsSafe(c) == c \in SafeSet
\* re.sub(r"[^\w.\-]+", "_", s): every maximal run of other characters -> "_"
RECURSIVE ReSubUnsafe(_, _)
ReSubUnsafe(s, i) ==
    IF i > Len(s) THEN << >>
    ELSE IF IsSafe(s[i]) THEN << s[i] >> \o ReSubUnsafe(s, i + 1)
    ELSE IF i > 1 /\ ~IsSafe(s[i - 1]) THEN ReSubUnsafe(s, i + 1)
    ELSE << "_" >> \o ReSubUnsafe(s, i + 1)
slugify(name) ==
    LET safe == StripSet(ReSubUnsafe(Strip(name), 1), { ".", "_" })
    IN  IF safe = << >> THEN DefaultSlug ELSE safe

(***************************************************************************)
(* pathlib: PurePath.suffix and PurePath.stem of a file name.              *)
(***************************************************************************)
\* position of the last "." of name, 0 when there is none (str.rfind + 1)
RFindDot(name) ==
    LET ds == { i \in 1..Len(name) : name[i] = "." }
    IN  IF ds = {} THEN 0 ELSE CHOOSE i \in ds : \A j \in ds : j <= i
HasSuffix(name) == RFindDot(name) > 1 /\ RFindDot(name) < Len(name)
PathSuffix(name) ==
    IF HasSuffix(name) THEN SubSeq(name, RFindDot(name), Len(name)) ELSE << >>
PathStem(name) ==
    IF HasSuffix(name) THEN SubSeq(name, 1, RFindDot(name) - 1) ELSE name

DotPdf == << ".", "p", "d", "f" >>
\* f"documento_{idx:03d}.pdf"
DefaultDoc(idx) ==
    << "d","o","c","u","m","e","n","t","o","_" >> \o Fmt03(idx) \o DotPdf
\* f"{dst.stem}_{idx:03d}{dst.suffix}", lines 206 and 218
Renamed(fn, idx) == PathStem(fn) \o << "_" >> \o Fmt03(idx) \o PathSuffix(fn)

(***************************************************************************)
(* The position token: re.search(r"(\d+)\s*/\s*(\d+)", pos_txt), line 265. *)
(***************************************************************************)
\* the match of the pattern that starts at position i, if there is one
PosMatchAt(t, i) ==
    LET d1 == RunEnd(t, i, DigitSet)
        s1 == RunEnd(t, d1 + 1, SpaceSet)
        s2 == RunEnd(t, s1 + 2, SpaceSet)
        d2 == RunEnd(t, s2 + 1, DigitSet)
    IN  IF d1 >= i /\ s1 + 1 <= Len(t) /\ t[s1 + 1] = "/" /\ d2 >= s2 + 1
        THEN [ ok |-> TRUE, cur |-> ToInt(SubSeq(t, i, d1)),
               total |-> ToInt(SubSeq(t, s2 + 1, d2)) ]
        ELSE [ ok |-> FALSE, cur |-> 0, total |-> 0 ]
\* the leftmost match (m is None: ok = FALSE)
PosSearch(t) ==
    LET starts == { i \in 1..Len(t) : PosMatchAt(t, i).ok }
    IN  IF starts = {} THEN [ ok |-> FALSE, cur |-> 0, total |-> 0 ]
        ELSE PosMatchAt(t, CHOOSE i \in starts : \A j \in starts : i <= j)
\* the termination test with > in place of >=
IsPastLastResult(p) ==
    LET m == PosSearch(p) IN m.ok /\ m.cur > m.total
\* line 266: m and int(m.group(1)) >= int(m.group(2))
IsLastResult(p) ==
    LET m == PosSearch(p) IN m.ok /\ m.cur >= m.total

(***************************************************************************)
(* The ledger file descargas_log.csv and its summary, lines 47-77.         *)
(* A file is [exists, rows]; a row is the sequence of its fields.          *)
(***************************************************************************)
sIndice == << "i","n","d","i","c","e" >>
sEstado == << "e","s","t","a","d","o" >>
sArchivo == << "a","r","c","h","i","v","o" >>
sDetalle == << "d","e","t","a","l","l","e" >>
sOK == << "O","K" >>
sERROR == << "E","R","R","O","R" >>
sOTRO == << "O","T","R","O" >>
sSinPdf == << "S","i","n"," ","P","D","F"," ","o"," ","t","i","m","e","o","u","t" >>
\* line 91
Header == << sIndice, sEstado, sArchivo, sDetalle >>
NoFile == [ exists |-> FALSE, rows |-> << >> ]

\* csv.DictReader: row.get(name) or "", the fields named by the first row
RowGet(fieldnames, row, name) ==
    LET is == { i \in 1..Len(fieldnames) : fieldnames[i] = name /\ i <= Len(row) }
    IN  IF is = {} THEN << >>
        ELSE row[CHOOSE i \in is : \A j \in is : j <= i]
\* the rows csv.DictReader yields: those after the header row
DataRows(f) == IF f.exists /\ Len(f.rows) > 1 THEN Tail(f.rows) ELSE << >>
FieldNames(f) == IF f.exists /\ Len(f.rows) > 0 THEN f.rows[1] ELSE << >>

\* line 58: re.split(r"\d", name, maxsplit=1)[0].strip("-_ ").upper()
PrefixOf(name) ==
    LET ds == { i \in 1..Len(name) : IsDigit(name[i]) }
        head == IF ds = {} THEN name
                ELSE SubSeq(name, 1, (CHOOSE i \in ds : \A j \in ds : i <= j) - 1)
    IN  Upper(StripSet(head, { "-", "_", " " }))
\* Counter: prefixes[k] += 1
CounterInc(c, k) ==
    IF k \in DOMAIN c THEN [ c EXCEPT ![k] = @ + 1 ] ELSE c @@ (k :> 1)
NoCounter == [ k \in {} |-> 0 ]

\* the loop body comparing the estado field as written, without strip().upper()
SummarizeRowExact(acc, fieldnames, row) ==
    LET state == RowGet(fieldnames, row, sEstado)
        name == Strip(RowGet(fieldnames, row, sArchivo))
        prefix == PrefixOf(name)
    IN  IF state = sOK
        THEN [ ok |-> acc.ok + 1, error |-> acc.error,
               prefixes |-> CounterInc(acc.prefixes,
                                       IF prefix = << >> THEN sOTRO ELSE prefix) ]
        ELSE IF state = sERROR
        THEN [ acc EXCEPT !.error = @ + 1 ]
        ELSE acc
\* lines 54-61: the loop body for one row
SummarizeRow(acc, fieldnames, row) ==
    LET state == Upper(Strip(RowGet(fieldnames, row, sEstado)))
        name == Strip(RowGet(fieldnames, row, sArchivo))
        prefix == PrefixOf(name)
    IN  IF state = sOK
        THEN [ ok |-> acc.ok + 1, error |-> acc.error,
               prefixes |-> CounterInc(acc.prefixes,
                                       IF prefix = << >> THEN sOTRO ELSE prefix) ]
        ELSE IF state = sERROR
        THEN [ acc EXCEPT !.error = @ + 1 ]
        ELSE acc
RECURSIVE SummarizeRows(_, _, _)
SummarizeRows(acc, fieldnames, rows) ==
    IF rows = << >> THEN acc
    ELSE SummarizeRows(SummarizeRow(acc, fieldnames, Head(rows)), fieldnames, Tail(rows))
\* lines 47-62
summarize_log(f) ==
    LET zero == [ ok |-> 0, error |-> 0, prefixes |-> NoCounter ]
    IN  IF ~f.exists THEN zero
        ELSE SummarizeRows(zero, FieldNames(f), DataRows(f))

\* the sort key without the count
ItemBeforeByKey(c, a, b) == StrLess(a, b)
\* line 67: sorted(prefixes.items(), key=lambda it: (-it[1], it[0]))
ItemBefore(c, a, b) == c[a] > c[b] \/ (c[a] = c[b] /\ StrLess(a, b))
RECURSIVE SortedItems(_)
SortedItems(c) ==
    IF DOMAIN c = {} THEN << >>
    ELSE LET k == CHOOSE a \in DOMAIN c : \A b \in DOMAIN c \ {a} : ItemBefore(c, a, b)
         IN  << << k, c[k] >> >> \o SortedItems([ x \in DOMAIN c \ {k} |-> c[x] ])
\* "\n".join(lines) + "\n"
RECURSIVE JoinLines(_)
JoinLines(lines) ==
    IF lines = << >> THEN << >> ELSE Head(lines) \o << "\n" >> \o JoinLines(Tail(lines))
\* the report without the line written for an empty mapping
SummaryTextNoPlaceholder(r, ordered) ==
    JoinLines(<< sOK \o << ":", " " >> \o Dec(r.ok),
                 sERROR \o << ":", " " >> \o Dec(r.error),
                 << "P","O","R"," ","P","R","E","F","I","J","O",":" >> >>
              \o [ i \in 1..Len(ordered) |->
                     ordered[i][1] \o << ":", " " >> \o Dec(ordered[i][2]) ])
\* lines 70-72: resumen_descargas.txt
SummaryText(r, ordered) ==
    LET head == << sOK \o << ":", " " >> \o Dec(r.ok),
                   sERROR \o << ":", " " >> \o Dec(r.error),
                   << "P","O","R"," ","P","R","E","F","I","J","O",":" >> >>
        body == IF ordered = << >>
                THEN << << "(","s","i","n"," ","d","a","t","o","s",")" >> >>
                ELSE [ i \in 1..Len(ordered) |->
                         ordered[i][1] \o << ":", " " >> \o Dec(ordered[i][2]) ]
    IN  JoinLines(head \o body)
\* lines 65-77: the two summary files written from the ledger
write_summary(f) ==
    LET r == summarize_log(f)
        ordered == SortedItems(r.prefixes)
    IN  [ txt |-> SummaryText(r, ordered),
          js |-> [ ok |-> r.ok, error |-> r.error, por_prefijo |-> ordered ] ]

(***************************************************************************)
(* State.                                                                  *)
(***************************************************************************)
VARIABLES
    \* --- the month job, run_download_month (lines 80-280) ---
    pc,           \* position of the job's control flow
    rc,           \* exit code of the job's process once it has ended, else -1
    total,        \* rows of the result list shown by the site
    uiCur,        \* row the site currently displays (0: none)
    uiPending,    \* next-clicks the site has accepted and not yet applied
    key,          \* line 246
    pos_txt,      \* line 264
    idx,          \* line 244
    total_ok,     \* line 244
    saved,        \* line 253: [ok, name]; ok = FALSE is None
    log_csv,      \* the file descargas_log.csv
    files,        \* names of the documents in output_dir
    summary,      \* resumen_descargas.txt / .json: [written, txt, js]
    attempt,      \* the loop counter of move_next_distinct, line 169
    sd,           \* what a save_download call went through (resolver runs)
    sess,         \* what the search session went through (session runs)
    mn,           \* what the running move_next_distinct call did
    visited,      \* rows displayed when save_download ran, in order
    \* --- the shell, class App (lines 283-564) ---
    running, queue, stop_requested,
    controls,     \* argument of the last _set_controls call
    workers,      \* month executions in flight: threads of _exec_month
    afterQ,       \* callbacks posted with master.after(0, ...), in order
    status,       \* self.status
    pressed,      \* the button that began the current run: [kind, year]
    started,      \* months started since that button press, in order
    errors        \* messagebox.showerror calls since that button press

jobVars == << pc, rc, total, uiCur, uiPending, key, pos_txt, idx, total_ok, saved,
              log_csv, files, summary, attempt, sd, sess, mn, visited >>
appVars == << running, queue, stop_requested, controls, workers, afterQ, status,
              pressed, started, errors >>
vars == << jobVars, appVars >>

(***************************************************************************)
(* The site's result list, as the job sees it.                             *)
(***************************************************************************)
\* text of resultForm:pagText2 when row cur of tot is displayed: "cur / tot"
KeyText(cur, tot) == Dec(cur) \o << " ", "/", " " >> \o Dec(tot)
\* lines 147-151: the stripped text, or "" when the read raises
get_current_result_key == { KeyText(uiCur, total), << >> }
\* the wait predicate without its comparison with prev
KeyPresentOnly(prev) == KeyText(uiCur, total) # << >>
\* lines 175-178: the predicate wait_for_function polls
KeyDiffers(prev) == KeyText(uiCur, total) # << >> /\ KeyText(uiCur, total) # prev

\* names a document may carry (last URL path component, suggested file name)
NameA == << "a", ".", "p", "d", "f" >>
NameA3 == << "a", "_", "0", "0", "3", ".", "p", "d", "f" >>
NameDoc == << "b", " ", "c", ".", "d", "o", "c" >>
Names == { << >>, NameA, << " " >> \o NameA, NameA3, NameDoc }
\* values of the Pdf link's href attribute for a document name
NoHref == << >>
ScriptHref == << "J","a","v","a","S","c","r","i","p","t",":" >>
UrlOf(name) == << "/", "d", "/" >> \o name
HrefsOf(names) == { NoHref, ScriptHref } \cup { UrlOf(n) : n \in names }
\* an address whose path has no last component
RootHref == << "/" >>
\* responses of the direct fetch
PdfMagic == << "%", "P", "D", "F" >>
Bodies == { PdfMagic \o << "-", "1" >>, << "<", "h", "t", "m", "l" >> }
NoResponse == [ raised |-> TRUE, ok |-> FALSE, body |-> << >> ]
Responses == { NoResponse } \cup [ raised : { FALSE }, ok : BOOLEAN, body : Bodies ]
\* outcomes of expect_download + click + save_as for a suggested name
NoDownload == [ arrived |-> FALSE, suggested |-> << >> ]
DownloadsOf(names) == { NoDownload } \cup [ arrived : { TRUE }, suggested : names ]
\* the names the documents of the traversed result list carry
JobNames == { NameA }

(***************************************************************************)
(* save_download, lines 191-222.                                           *)
(***************************************************************************)
\* Path(unquote(urlparse(full).path)).name for an href without query or escapes
UrlName(href) ==
    LET p == StripSet(href, { "/" })
        ss == { i \in 1..Len(p) : p[i] = "/" }
    IN  IF ss = {} THEN p
        ELSE SubSeq(p, (CHOOSE i \in ss : \A j \in ss : j <= i) + 1, Len(p))
\* line 197
HrefUsable(href) ==
    href # << >> /\ ~StartsWith(Lower(href), << "j","a","v","a","s","c","r","i","p","t" >>)
\* the acceptance test without the magic-bytes check
DirectAcceptsAnyBody(resp) == resp.ok
\* line 201: resp.ok and resp.body().startswith(b"%PDF")
DirectAccepts(resp) == resp.ok /\ StartsWith(resp.body, PdfMagic)
\* lines 199-201 and 209: the fetch did not raise and its response is accepted
DirectOk(resp) == ~resp.raised /\ DirectAccepts(resp)
\* lines 202-203
DirectName(href, i) ==
    LET n == IF UrlName(href) = << >> THEN DefaultDoc(i) ELSE UrlName(href)
    IN  slugify(IF EndsWith(Lower(n), DotPdf) THEN n ELSE n \o DotPdf)
\* line 215
FallbackName(suggested, i) ==
    slugify(IF suggested = << >> THEN DefaultDoc(i) ELSE suggested)
\* lines 204-206 and 216-218: the destination for file name fn
Destination(fn, i, dir) == IF fn \in dir THEN Renamed(fn, i) ELSE fn
\* the whole call: what it returns and which strategies it went through
save_download(href, resp, dl, i, dir) ==
    IF HrefUsable(Strip(href)) /\ DirectOk(resp)
    THEN [ ok |-> TRUE, name |-> Destination(DirectName(Strip(href), i), i, dir),
           via |-> "direct", fetched |-> TRUE, fallback |-> FALSE ]
    ELSE IF dl.arrived
    THEN [ ok |-> TRUE, name |-> Destination(FallbackName(dl.suggested, i), i, dir),
           via |-> "fallback", fetched |-> HrefUsable(Strip(href)), fallback |-> TRUE ]
    ELSE [ ok |-> FALSE, name |-> << >>,
           via |-> "none", fetched |-> HrefUsable(Strip(href)), fallback |-> TRUE ]

(***************************************************************************)
(* The month job: run_download_month, lines 80-280.                        *)
(***************************************************************************)
NoSummary == [ written |-> FALSE, txt |-> << >>,
               js |-> [ ok |-> 0, error |-> 0, por_prefijo |-> << >> ] ]
NoSave == [ ok |-> FALSE, name |-> << >> ]
NoSd == [ via |-> "none", fetched |-> FALSE, fallback |-> FALSE, resp |-> NoResponse ]
NoMn == [ calls |-> 0, clicks |-> 0, observed |-> << >>, result |-> "none" ]
NoSess == [ ran |-> FALSE, outs |-> << >> ]
\* a ledger left in the month's directory by an earlier run
StaleLog == [ exists |-> TRUE,
              rows |-> << Header, << Dec(1), sOK, NameA, << >> >>,
                          << Dec(2), sERROR, << >>, sSinPdf >> >> ]
\* the document that earlier run saved
StaleFiles == { NameA }

\* line 19
YEARS == { 2024, 2025, 2026 }
Months == 1..12
\* values of self.status (lines 483, 516, 538, 554, 564)
StatusListo == [ text |-> "Listo.", year |-> 0, month |-> 0 ]
StatusStopping ==
    [ text |-> "Se detendra al finalizar el mes actual.", year |-> 0, month |-> 0 ]
StatusDownloading(y, m) == [ text |-> "Descargando", year |-> y, month |-> m ]
StatusError(y, m) == [ text |-> "Error en", year |-> y, month |-> m ]
StatusCompleted == [ text |-> "Proceso completado.", year |-> 0, month |-> 0 ]

\* lines 283-300 and 426-495: the shell after construction
AppIdle ==
    /\ running = FALSE /\ queue = << >> /\ stop_requested = FALSE
    /\ controls = FALSE /\ workers = {} /\ afterQ = << >>
    /\ status = StatusListo /\ pressed = [ kind |-> "none", year |-> 0 ]
    /\ started = << >> /\ errors = 0

Init ==
    /\ pc = "main" /\ rc = -1
    /\ total \in 0..MaxTotal
    /\ uiCur = (IF total = 0 THEN 0 ELSE 1)
    /\ uiPending = 0
    /\ key = << >> /\ pos_txt = << >>
    /\ idx = 0 /\ total_ok = 0
    /\ saved = NoSave
    /\ log_csv \in { NoFile, StaleLog }
    /\ files = (IF log_csv = StaleLog THEN StaleFiles ELSE {})
    /\ summary = NoSummary
    /\ attempt = 0
    /\ sd = NoSd /\ sess = NoSess /\ mn = NoMn /\ visited = << >>
    /\ AppIdle

(***************************************************************************)
(* The process: main (lines 567-576) run as a script (lines 579-580).      *)
(***************************************************************************)
\* sys.argv: without the directive, or "--run-month <year> <month>"
Argvs == { "plain", "run_month" }
\* exit status that ignores an uncaught exception
ExitCodeAlwaysZero(raised) == 0
\* exit status of the interpreter: 1 after an uncaught exception, 0 when main
\* returns (line 573)
ExitCodeOf(raised) == IF raised THEN 1 ELSE 0

\* lines 568-576: with the directive the month job is run in this process,
\* otherwise the Tk shell is built and its main loop entered
Main ==
    /\ pc = "main"
    /\ \E argv \in Argvs :
         pc' = (IF argv = "run_month" THEN "start" ELSE "mainloop")
    /\ UNCHANGED << rc, total, uiCur, uiPending, key, pos_txt, idx, total_ok, saved,
                    log_csv, files, summary, attempt, sd, mn, visited, sess, appVars >>

\* the job opening the ledger for appending: the header follows what an
\* earlier run left in the file
StartJobAppends ==
    /\ pc = "start"
    /\ \E raised \in BOOLEAN :
         IF raised
         THEN pc' = "aborted" /\ rc' = ExitCodeOf(TRUE) /\ UNCHANGED log_csv
         ELSE /\ log_csv' = [ exists |-> TRUE, rows |-> Append(log_csv.rows, Header) ]
              /\ pc' = "session" /\ rc' = rc
    /\ UNCHANGED << total, uiCur, uiPending, key, pos_txt, idx, total_ok, saved,
                    files, summary, attempt, sd, mn, visited, sess, appVars >>
\* lines 81-91: ensure_playwright_installed (its check_call raises when the
\* install fails), then the output directory and a fresh ledger holding the
\* header
StartJob ==
    /\ pc = "start"
    /\ \E raised \in BOOLEAN :
         IF raised
         THEN pc' = "aborted" /\ rc' = ExitCodeOf(TRUE) /\ UNCHANGED log_csv
         ELSE /\ log_csv' = [ exists |-> TRUE, rows |-> << Header >> ]
              /\ pc' = "session" /\ rc' = rc
    /\ UNCHANGED << total, uiCur, uiPending, key, pos_txt, idx, total_ok, saved,
                    files, summary, attempt, sd, mn, visited, sess, appVars >>

(***************************************************************************)
(* The search session, lines 224-242, with its helpers (lines 93-145).     *)
(***************************************************************************)
\* the steps in the order they run
SessionSteps ==
    << "launch",         \* lines 224-227: playwright, browser, context, page
       "goto",           \* line 228
       "sala_clicks",    \* lines 118-120: click_if_possible, three times
       "sala_eval",      \* lines 121-131: page.evaluate
       "tutelas_click",  \* line 134: click_if_possible
       "tutelas_eval",   \* lines 135-145: page.evaluate
       "panel",          \* lines 232-237: inside try / except Exception
       "fecha_ini",      \* line 238: fill_date, page.evaluate
       "fecha_fin",      \* line 239: fill_date, page.evaluate
       "buscar",         \* line 241: the click on Buscar
       "networkidle" >>  \* line 242: wait_for_load_state
\* steps whose exceptions are caught: click_if_possible (lines 93-100) and the
\* try of lines 232-237
GuardedSteps == { "sala_clicks", "tutelas_click", "panel" }
\* steps made of one page.evaluate whose script returns false when its
\* element is missing (lines 106, 124, 138)
EvalSteps == { "sala_eval", "tutelas_eval", "fecha_ini", "fecha_fin" }
\* how a step may end: "fails" is an exception inside a guarded step,
\* "missing" an evaluate that found no element, "raises" an exception of the
\* call itself
OutcomesOf(step) ==
    IF step \in GuardedSteps THEN { "ok", "fails" }
    ELSE IF step \in EvalSteps THEN { "ok", "missing", "raises" }
    ELSE { "ok", "raises" }
\* every caught failure propagating as well
StepRaisesEveryFailure(step, o) == o \in { "raises", "fails" }
\* the step lets an exception out
StepRaises(step, o) == o = "raises"
\* the outcomes of the eleven steps, were they all to run
SessionOutcomes ==
    { << o1, o2, o3, o4, o5, o6, o7, o8, o9, o10, o11 >> :
        o1 \in OutcomesOf(SessionSteps[1]), o2 \in OutcomesOf(SessionSteps[2]),
        o3 \in OutcomesOf(SessionSteps[3]), o4 \in OutcomesOf(SessionSteps[4]),
        o5 \in OutcomesOf(SessionSteps[5]), o6 \in OutcomesOf(SessionSteps[6]),
        o7 \in OutcomesOf(SessionSteps[7]), o8 \in OutcomesOf(SessionSteps[8]),
        o9 \in OutcomesOf(SessionSteps[9]), o10 \in OutcomesOf(SessionSteps[10]),
        o11 \in OutcomesOf(SessionSteps[11]) }
\* positions of the steps that let an exception out
RaisingAt(outs) == { i \in 1..Len(outs) : StepRaises(SessionSteps[i], outs[i]) }
SessionRaised(outs) == RaisingAt(outs) # {}
\* the steps that ran: all of them, or those up to the first exception
StepsRun(outs) ==
    IF SessionRaised(outs)
    THEN SubSeq(outs, 1, CHOOSE i \in RaisingAt(outs) : \A j \in RaisingAt(outs) : i <= j)
    ELSE outs

\* whether the session raised, over all outcomes of its steps
SessionResults == { SessionRaised(outs) : outs \in SessionOutcomes }

\* lines 224-244: an exception ends the process, otherwise the loop is entered
\* with idx, total_ok = 1, 0
SearchSession ==
    /\ pc = "session"
    /\ \E raised \in SessionResults :
         IF raised
         THEN pc' = "crashed" /\ rc' = ExitCodeOf(TRUE) /\ UNCHANGED << idx, total_ok >>
         ELSE pc' = "read_key" /\ rc' = rc /\ idx' = 1 /\ total_ok' = 0
    /\ UNCHANGED << total, uiCur, uiPending, key, pos_txt, saved, log_csv, files,
                    summary, attempt, sd, mn, visited, sess, appVars >>

\* lines 246-251: the key is read, the row and its menu are clicked (failures
\* swallowed); menu.count() is outside every try and raises when the page is gone
BeginRow ==
    /\ pc = "read_key"
    /\ key' \in get_current_result_key
    /\ \E raised \in BOOLEAN :
         IF raised THEN pc' = "crashed" /\ rc' = ExitCodeOf(TRUE)
         ELSE pc' = "save" /\ rc' = rc
    /\ UNCHANGED << total, uiCur, uiPending, pos_txt, idx, total_ok, saved,
                    log_csv, files, summary, attempt, sd, mn, visited, sess, appVars >>

\* line 253: save_download(page, context, idx); with no row displayed there is
\* no Pdf link, so the href read and the click both time out
SaveDownload ==
    /\ pc = "save"
    /\ \E href \in (IF uiCur = 0 THEN { NoHref } ELSE HrefsOf(JobNames)) :
       \E resp \in (IF HrefUsable(Strip(href)) THEN Responses ELSE { NoResponse }) :
       \E dl \in (IF uiCur = 0 \/ (HrefUsable(Strip(href)) /\ DirectOk(resp))
                  THEN { NoDownload } ELSE DownloadsOf(JobNames)) :
         LET r == save_download(href, resp, dl, idx, files)
         IN  /\ saved' = [ ok |-> r.ok, name |-> r.name ]
             /\ files' = (IF r.ok THEN files \cup { r.name } ELSE files)
    /\ visited' = Append(visited, uiCur)
    /\ pc' = "append"
    /\ UNCHANGED << rc, total, uiCur, uiPending, key, pos_txt, idx, total_ok,
                    log_csv, summary, attempt, sd, mn, sess, appVars >>

\* the ledger row numbered from zero
LedgerRowZeroBased(i, s) ==
    IF s.ok THEN << Dec(i - 1), sOK, s.name, << >> >>
    ELSE << Dec(i - 1), sERROR, << >>, sSinPdf >>
\* lines 259 and 262: the row written for index i
LedgerRow(i, s) ==
    IF s.ok THEN << Dec(i), sOK, s.name, << >> >>
    ELSE << Dec(i), sERROR, << >>, sSinPdf >>
\* the append treating None as fatal: no row, the process ends
AppendRowAbortsOnNone ==
    /\ pc = "append"
    /\ IF saved.ok
       THEN /\ log_csv' = [ log_csv EXCEPT !.rows = Append(@, LedgerRow(idx, saved)) ]
            /\ total_ok' = total_ok + 1
            /\ pc' = "reread" /\ rc' = rc
       ELSE pc' = "crashed" /\ rc' = 1 /\ UNCHANGED << log_csv, total_ok >>
    /\ UNCHANGED << total, uiCur, uiPending, key, pos_txt, idx, saved, files,
                    summary, attempt, sd, mn, visited, sess, appVars >>
\* lines 254-262: one row appended to the ledger, the file closed
AppendRow ==
    /\ pc = "append"
    /\ log_csv' = [ log_csv EXCEPT !.rows = Append(@, LedgerRow(idx, saved)) ]
    /\ total_ok' = (IF saved.ok THEN total_ok + 1 ELSE total_ok)
    /\ pc' = "reread"
    /\ UNCHANGED << rc, total, uiCur, uiPending, key, pos_txt, idx, saved, files,
                    summary, attempt, sd, mn, visited, sess, appVars >>

\* lines 264-269: the key is read again; at the last result the loop ends,
\* otherwise move_next_distinct(page, key) is entered
CheckLast ==
    /\ pc = "reread"
    /\ pos_txt' \in get_current_result_key
    /\ IF IsLastResult(pos_txt')
       THEN pc' = "summary" /\ UNCHANGED << attempt, mn >>
       ELSE /\ pc' = "mn_click"
            /\ attempt' = 0
            /\ mn' = [ NoMn EXCEPT !.calls = mn.calls + 1 ]
    /\ UNCHANGED << rc, total, uiCur, uiPending, key, idx, total_ok, saved,
                    log_csv, files, summary, sd, visited, sess, appVars >>

(***************************************************************************)
(* click_next_result (lines 153-166) and move_next_distinct (168-189).     *)
(***************************************************************************)
\* line 169: range(3)
Attempts == 3
\* line 154: the three selectors tried in order
Selectors == 1..3
\* what a selector's control does: no such element, class "disabled",
\* a click that raises, a click that goes through
SelStates == { "absent", "disabled", "rejects", "clicks" }
\* lines 153-166: TRUE when some control took the click
click_next_result(sels) == \E i \in Selectors : sels[i] = "clicks"
\* lines 270-271 after line 189: the call returns False and the loop ends
MnReturnFalse ==
    /\ pc' = "summary"
    /\ UNCHANGED << idx >>
\* what click_next_result may return, over all states of the three controls
ClickResults == { click_next_result(sels) : sels \in [ Selectors -> SelStates ] }
\* the wait entered whatever current_key is
AfterClickAlwaysWaits(current_key) == "mn_wait"
\* line 172: the wait is entered only with a non-empty current_key
AfterClick(current_key) == IF current_key # << >> THEN "mn_wait" ELSE "mn_delay"
\* one pass of the for loop up to the click, lines 169-172; a click the
\* site accepts is applied later (UiApply), a click it drops never is
MnClick ==
    /\ pc = "mn_click"
    /\ \E clicked \in ClickResults,
            taken \in (IF uiPending < MaxPending THEN BOOLEAN ELSE { FALSE }) :
         IF clicked
         THEN /\ uiPending' = (IF taken THEN uiPending + 1 ELSE uiPending)
              /\ mn' = [ mn EXCEPT !.clicks = @ + 1 ]
              /\ pc' = AfterClick(key)
              /\ UNCHANGED << attempt, idx >>
         ELSE /\ attempt' = attempt + 1
              /\ IF attempt' >= Attempts
                 THEN MnReturnFalse /\ mn' = [ mn EXCEPT !.result = "false" ]
                 ELSE /\ pc' = "mn_click" /\ UNCHANGED idx
                      /\ UNCHANGED mn
              /\ UNCHANGED uiPending
    /\ UNCHANGED << rc, total, uiCur, key, pos_txt, total_ok, saved, log_csv, files,
                    summary, sd, visited, sess, appVars >>

\* lines 174-182: wait_for_function saw a key other than current_key;
\* the call returns True and line 272 runs
MnWaitOk ==
    /\ pc = "mn_wait"
    /\ KeyDiffers(key)
    /\ mn' = [ mn EXCEPT !.observed = KeyText(uiCur, total), !.result = "true" ]
    /\ idx' = idx + 1
    /\ pc' = "read_key"
    /\ UNCHANGED << rc, total, uiCur, uiPending, key, pos_txt, total_ok, saved,
                    log_csv, files, summary, attempt, sd, visited, sess, appVars >>

\* the timeout going to the next pass without the delay
MnWaitTimeoutSkipsDelay ==
    /\ pc = "mn_wait"
    /\ ~KeyDiffers(key)
    /\ attempt' = attempt + 1
    /\ IF attempt' >= Attempts
       THEN MnReturnFalse /\ mn' = [ mn EXCEPT !.result = "false" ]
       ELSE pc' = "mn_click" /\ UNCHANGED << mn, idx >>
    /\ UNCHANGED << rc, total, uiCur, uiPending, key, pos_txt, total_ok, saved,
                    log_csv, files, summary, sd, visited, sess, appVars >>
\* the wait without its timeout: it lasts until the key changes
MnWaitNoTimeout ==
    /\ pc = "mn_wait"
    /\ ~KeyDiffers(key)
    /\ UNCHANGED vars
\* lines 183-184: the 9000 ms ran out with the key unchanged
MnWaitTimeout ==
    /\ pc = "mn_wait"
    /\ ~KeyDiffers(key)
    /\ pc' = "mn_delay"
    /\ UNCHANGED << rc, total, uiCur, uiPending, key, pos_txt, idx, total_ok, saved,
                    log_csv, files, summary, attempt, sd, mn, visited, sess, appVars >>

\* lines 185-189: the 300 ms delay, then the next pass or return False
MnDelay ==
    /\ pc = "mn_delay"
    /\ attempt' = attempt + 1
    /\ IF attempt' >= Attempts
       THEN MnReturnFalse /\ mn' = [ mn EXCEPT !.result = "false" ]
       ELSE pc' = "mn_click" /\ UNCHANGED << mn, idx >>
    /\ UNCHANGED << rc, total, uiCur, uiPending, key, pos_txt, total_ok, saved,
                    log_csv, files, summary, sd, visited, sess, appVars >>

\* the site applies an accepted next-click: the following row is displayed
UiApply ==
    /\ uiPending > 0
    /\ pc \in { "read_key", "save", "append", "reread", "mn_click", "mn_wait",
                "mn_delay", "summary" }
    /\ uiPending' = uiPending - 1
    /\ uiCur' = (IF uiCur < total THEN uiCur + 1 ELSE uiCur)
    /\ UNCHANGED << pc, rc, total, key, pos_txt, idx, total_ok, saved, log_csv, files,
                    summary, attempt, sd, mn, visited, sess, appVars >>

\* the end of the job with the summary written only when something was saved
WriteSummaryIfAnyOk ==
    /\ pc = "summary"
    /\ summary' = (IF total_ok > 0
                   THEN [ written |-> TRUE, txt |-> write_summary(log_csv).txt,
                          js |-> write_summary(log_csv).js ]
                   ELSE summary)
    /\ pc' = "done"
    /\ rc' = 0
    /\ UNCHANGED << total, uiCur, uiPending, key, pos_txt, idx, total_ok, saved,
                    log_csv, files, attempt, sd, mn, visited, sess, appVars >>
\* lines 274-280: the summary files are written and the process ends
WriteSummary ==
    /\ pc = "summary"
    /\ summary' = [ written |-> TRUE, txt |-> write_summary(log_csv).txt,
                    js |-> write_summary(log_csv).js ]
    /\ pc' = "done"
    /\ rc' = ExitCodeOf(FALSE)
    /\ UNCHANGED << total, uiCur, uiPending, key, pos_txt, idx, total_ok, saved,
                    log_csv, files, attempt, sd, mn, visited, sess, appVars >>

JobNext ==
    \/ Main \/ StartJob \/ SearchSession \/ BeginRow \/ SaveDownload \/ AppendRow
    \/ CheckLast \/ MnClick \/ MnWaitOk \/ MnWaitTimeout \/ MnDelay \/ UiApply
    \/ WriteSummary
Next == JobNext
Spec == Init /\ [][Next]_vars

\* the steps of the process itself up to the end of the loop, as opposed to
\* those of the site
JobStep ==
    \/ Main \/ StartJob \/ SearchSession \/ BeginRow \/ SaveDownload \/ AppendRow
    \/ CheckLast \/ MnClick \/ MnWaitOk \/ MnWaitTimeout \/ MnDelay
\* lines 274-280 run to their end: WriteSummary is enabled exactly when
\* pc = "summary" and leaves that position, so weak fairness of WriteSummary
\* is the statement that the job is not at "summary" forever
SummaryEnds == []<>(pc # "summary")
\* The process runs on: every browser call of the job returns or raises
\* within its timeout (1000 to 30000 ms, lines 95-219; the defaults of goto,
\* evaluate and wait_for_load_state), Download.save_as (line 219), which
\* takes no timeout, being taken to end with its download.  The site is
\* under no obligation to apply a click.
SpecLive == Init /\ [][Next]_vars /\ WF_vars(JobStep) /\ SummaryEnds

(***************************************************************************)
(* Session runs: the search session of one job (lines 224-244) with the    *)
(* outcome of every step it went through kept.                             *)
(***************************************************************************)
InitSession ==
    /\ pc = "session" /\ rc = -1
    /\ total \in 0..MaxTotal
    /\ uiCur = (IF total = 0 THEN 0 ELSE 1)
    /\ uiPending = 0
    /\ key = << >> /\ pos_txt = << >>
    /\ idx = 0 /\ total_ok = 0
    /\ saved = NoSave
    /\ log_csv = [ exists |-> TRUE, rows |-> << Header >> ]
    /\ files = {}
    /\ summary = NoSummary
    /\ attempt = 0
    /\ sd = NoSd /\ sess = NoSess /\ mn = NoMn /\ visited = << >>
    /\ AppIdle

RunSession ==
    /\ pc = "session"
    /\ \E outs \in SessionOutcomes :
         /\ sess' = [ ran |-> TRUE, outs |-> StepsRun(outs) ]
         /\ IF SessionRaised(outs)
            THEN pc' = "crashed" /\ rc' = ExitCodeOf(TRUE) /\ UNCHANGED << idx, total_ok >>
            ELSE pc' = "read_key" /\ rc' = rc /\ idx' = 1 /\ total_ok' = 0
    /\ UNCHANGED << total, uiCur, uiPending, key, pos_txt, saved, log_csv, files,
                    summary, attempt, sd, mn, visited, appVars >>

\* line 246: the first key read of the loop
FirstKeyRead ==
    /\ pc = "read_key"
    /\ key' \in get_current_result_key
    /\ pc' = "first_row"
    /\ UNCHANGED << rc, total, uiCur, uiPending, pos_txt, idx, total_ok, saved, log_csv,
                    files, summary, attempt, sd, mn, visited, sess, appVars >>

NextSession == RunSession \/ FirstKeyRead
SpecSession == InitSession /\ [][NextSession]_vars

(***************************************************************************)
(* Resolver runs: the save_download calls of one job's loop (line 253,     *)
(* idx from lines 244 and 272) over documents of every name, with every    *)
(* advance succeeding.                                                     *)
(***************************************************************************)
InitSave ==
    /\ pc = "resolve" /\ rc = -1
    /\ total = 0 /\ uiCur = 0 /\ uiPending = 0
    /\ key = << >> /\ pos_txt = << >>
    /\ idx = 1 /\ total_ok = 0
    /\ saved = NoSave
    /\ log_csv = NoFile
    /\ files = {}
    /\ summary = NoSummary
    /\ attempt = 0
    /\ sd = NoSd /\ sess = NoSess /\ mn = NoMn /\ visited = << >>
    /\ AppIdle

ResolveRow ==
    /\ pc = "resolve"
    /\ idx <= MaxDocs
    /\ \E href \in HrefsOf({ NameA, NameDoc }) \cup { RootHref } :
       \E resp \in (IF HrefUsable(Strip(href)) THEN Responses ELSE { NoResponse }) :
       \E dl \in (IF HrefUsable(Strip(href)) /\ DirectOk(resp) THEN { NoDownload }
                  ELSE DownloadsOf(Names)) :
         LET r == save_download(href, resp, dl, idx, files)
         IN  /\ saved' = [ ok |-> r.ok, name |-> r.name ]
             /\ files' = (IF r.ok THEN files \cup { r.name } ELSE files)
             /\ sd' = [ via |-> r.via, fetched |-> r.fetched, fallback |-> r.fallback,
                        resp |-> resp ]
    /\ idx' = idx + 1
    /\ UNCHANGED << pc, rc, total, uiCur, uiPending, key, pos_txt, total_ok, log_csv,
                    summary, attempt, mn, visited, sess, appVars >>

NextSave == ResolveRow
SpecSave == InitSave /\ [][NextSave]_vars

(***************************************************************************)
(* Summary runs: write_summary on a ledger file as it may be found on      *)
(* disk (the standalone re-summarising use of lines 47-77).                *)
(***************************************************************************)
\* estado fields of a ledger: OK and ERROR, as written and as a hand-edited
\* file may spell them
LedgerStates == { sOK, sERROR, << "o", "k" >>, << " ", "E", "r", "r", "o", "r" >> }
\* archivo fields
LedgerNames == { << >>, NameA, << "A","U","T","O","-","1",".","p","d","f" >>,
                 << "7", ".", "p", "d", "f" >> }
LedgerRows == { << Dec(1), st, nm, << >> >> : st \in LedgerStates, nm \in LedgerNames }
RECURSIVE RowSeqs(_)
\* the sequences of at most n ledger rows
RowSeqs(n) ==
    IF n = 0 THEN { << >> }
    ELSE LET shorter == RowSeqs(n - 1)
         IN  shorter \cup { Append(q, r) : q \in shorter, r \in LedgerRows }
\* a ledger as a job writes it: three documents of two series, one failure
ExampleLedger ==
    [ exists |-> TRUE,
      rows |-> << Header,
                  << Dec(1), sOK, << "A","U","T","O","-","1","2","3",".","p","d","f" >>, << >> >>,
                  << Dec(2), sOK, << "A","U","T","O","-","4","5","6",".","p","d","f" >>, << >> >>,
                  << Dec(3), sOK, << "S","E","N","T","_","7","8","9",".","p","d","f" >>, << >> >>,
                  << Dec(4), sERROR, << >>, sSinPdf >> >> ]
\* a ledger whose most frequent series is not the first in key order
CountOrderLedger ==
    [ exists |-> TRUE,
      rows |-> << Header,
                  << Dec(1), sOK, << "S","E","N","T","_","1",".","p","d","f" >>, << >> >>,
                  << Dec(2), sOK, << "A","U","T","O","-","1",".","p","d","f" >>, << >> >>,
                  << Dec(3), sOK, << "S","E","N","T","_","2",".","p","d","f" >>, << >> >> >> ]
Ledgers ==
    { NoFile, [ exists |-> TRUE, rows |-> << >> ], ExampleLedger, CountOrderLedger }
    \cup { [ exists |-> TRUE, rows |-> << Header >> \o q ] : q \in RowSeqs(MaxRows) }

InitSum ==
    /\ pc = "resummarize" /\ rc = -1
    /\ total = 0 /\ uiCur = 0 /\ uiPending = 0
    /\ key = << >> /\ pos_txt = << >>
    /\ idx = 0 /\ total_ok = 0
    /\ saved = NoSave
    /\ log_csv \in Ledgers
    /\ files = {}
    /\ summary = NoSummary
    /\ attempt = 0
    /\ sd = NoSd /\ sess = NoSess /\ mn = NoMn /\ visited = << >>
    /\ AppIdle

\* the files opened for appending instead of being rewritten
AppendFiles(old, out) ==
    [ written |-> TRUE, txt |-> old.txt \o out.txt, js |-> out.js ]
\* lines 72-77: write_text replaces the content of both files
WriteFiles(old, out) == [ written |-> TRUE, txt |-> out.txt, js |-> out.js ]

\* lines 65-77, a first run
Resummarize ==
    /\ pc = "resummarize"
    /\ summary' = WriteFiles(summary, write_summary(log_csv))
    /\ pc' = "resummarized"
    /\ UNCHANGED << rc, total, uiCur, uiPending, key, pos_txt, idx, total_ok, saved,
                    log_csv, files, attempt, sd, mn, visited, sess, appVars >>
\* lines 65-77, run again on the same directory
ResummarizeAgain ==
    /\ pc = "resummarized"
    /\ summary' = WriteFiles(summary, write_summary(log_csv))
    /\ pc' = "resummarized_again"
    /\ UNCHANGED << rc, total, uiCur, uiPending, key, pos_txt, idx, total_ok, saved,
                    log_csv, files, attempt, sd, mn, visited, sess, appVars >>

NextSum == Resummarize \/ ResummarizeAgain
SpecSum == InitSum /\ [][NextSum]_vars

(***************************************************************************)
(* The shell: class App, lines 501-564.  Button commands and               *)
(* master.after callbacks run one at a time on the Tk main loop; each      *)
(* _exec_month runs on a thread of its own.                                *)
(***************************************************************************)
\* exit codes of the month process: 0, or 1 after an uncaught exception
ExitCodes == { 0, 1 }
\* threading.Thread(target=self._exec_month, args=(y, m)).start()
StartThread(y, m) ==
    /\ workers' = workers \cup { [ year |-> y, month |-> m, phase |-> "new" ] }
    /\ started' = Append(started, << y, m >>)

\* a stop that also ends the month in flight
AppStopKillsWorker ==
    /\ stop_requested' = TRUE
    /\ queue' = << >>
    /\ status' = StatusStopping
    /\ workers' = {}
    /\ UNCHANGED << running, controls, afterQ, pressed, started, errors >>
\* lines 513-517
App_stop ==
    /\ stop_requested' = TRUE
    /\ queue' = << >>
    /\ status' = StatusStopping
    /\ UNCHANGED << running, controls, workers, afterQ, pressed, started, errors >>

\* lines 519-526
App_run_month(y, m) ==
    IF running THEN UNCHANGED appVars
    ELSE /\ running' = TRUE
         /\ stop_requested' = FALSE
         /\ queue' = << >>
         /\ controls' = TRUE
         /\ workers' = workers \cup { [ year |-> y, month |-> m, phase |-> "new" ] }
         /\ started' = << << y, m >> >>
         /\ pressed' = [ kind |-> "month", year |-> y ]
         /\ errors' = 0
         /\ UNCHANGED << afterQ, status >>

\* lines 528-535
App_run_year(y) ==
    IF running THEN UNCHANGED appVars
    ELSE /\ running' = TRUE
         /\ stop_requested' = FALSE
         /\ queue' = [ i \in 1..11 |-> << y, i + 1 >> ]
         /\ controls' = TRUE
         /\ workers' = workers \cup { [ year |-> y, month |-> 1, phase |-> "new" ] }
         /\ started' = << << y, 1 >> >>
         /\ pressed' = [ kind |-> "year", year |-> y ]
         /\ errors' = 0
         /\ UNCHANGED << afterQ, status >>

\* _month_done without the return of line 560
MonthDoneNoReturn(y, m, code) ==
    IF code # 0
    THEN /\ running' = FALSE
         /\ queue' = << >>
         /\ controls' = FALSE
         /\ status' = StatusError(y, m)
         /\ errors' = errors + 1
         /\ UNCHANGED << stop_requested, workers, pressed, started >>
    ELSE /\ running' = FALSE
         /\ queue' = << >>
         /\ controls' = FALSE
         /\ status' = StatusCompleted
         /\ IF queue # << >> /\ ~stop_requested
            THEN StartThread(Head(queue)[1], Head(queue)[2])
            ELSE UNCHANGED << workers, started >>
         /\ UNCHANGED << stop_requested, pressed, errors >>
\* _month_done without the test of the exit code
MonthDoneIgnoresExitCode(y, m, code) ==
    IF queue # << >> /\ ~stop_requested
    THEN /\ queue' = Tail(queue)
         /\ StartThread(Head(queue)[1], Head(queue)[2])
         /\ UNCHANGED << running, stop_requested, controls, status, pressed, errors >>
    ELSE /\ running' = FALSE
         /\ queue' = << >>
         /\ controls' = FALSE
         /\ status' = StatusCompleted
         /\ UNCHANGED << stop_requested, workers, pressed, started, errors >>
\* lines 548-564
App_month_done(y, m, code) ==
    IF code # 0
    THEN /\ running' = FALSE
         /\ queue' = << >>
         /\ controls' = FALSE
         /\ status' = StatusError(y, m)
         /\ errors' = errors + 1
         /\ UNCHANGED << stop_requested, workers, pressed, started >>
    ELSE IF queue # << >> /\ ~stop_requested
    THEN /\ queue' = Tail(queue)
         /\ StartThread(Head(queue)[1], Head(queue)[2])
         /\ UNCHANGED << running, stop_requested, controls, status, pressed, errors >>
    ELSE /\ running' = FALSE
         /\ queue' = << >>
         /\ controls' = FALSE
         /\ status' = StatusCompleted
         /\ UNCHANGED << stop_requested, workers, pressed, started, errors >>

\* a month button is pressed (enabled while _set_controls(False) holds)
PressMonth ==
    /\ ~controls
    /\ \E y \in YEARS, m \in Months : App_run_month(y, m)
    /\ UNCHANGED jobVars

\* a year button is pressed
PressYear ==
    /\ ~controls
    /\ \E y \in YEARS : App_run_year(y)
    /\ UNCHANGED jobVars

\* the stop button is pressed (enabled while _set_controls(True) holds)
PressStop ==
    /\ controls
    /\ App_stop
    /\ UNCHANGED jobVars

\* _exec_month, lines 538-541: the status callback is posted, the process spawned
ExecStart ==
    /\ \E w \in workers :
         /\ w.phase = "new"
         /\ workers' = (workers \ { w }) \cup { [ w EXCEPT !.phase = "process" ] }
         /\ afterQ' = Append(afterQ, [ kind |-> "status", year |-> w.year,
                                       month |-> w.month, rc |-> 0 ])
    /\ UNCHANGED << running, queue, stop_requested, controls, status, pressed,
                    started, errors >>
    /\ UNCHANGED jobVars

\* _exec_month, lines 543-546: the process has ended with some exit code,
\* the _month_done callback is posted and the thread ends
ExecFinish ==
    /\ \E w \in workers, code \in ExitCodes :
         /\ w.phase = "process"
         /\ workers' = workers \ { w }
         /\ afterQ' = Append(afterQ, [ kind |-> "done", year |-> w.year,
                                       month |-> w.month, rc |-> code ])
    /\ UNCHANGED << running, queue, stop_requested, controls, status, pressed,
                    started, errors >>
    /\ UNCHANGED jobVars

\* the main loop runs the oldest posted callback
RunCallback ==
    /\ afterQ # << >>
    /\ afterQ' = Tail(afterQ)
    /\ LET cb == Head(afterQ)
       IN  IF cb.kind = "status"
           THEN /\ status' = StatusDownloading(cb.year, cb.month)
                /\ UNCHANGED << running, queue, stop_requested, controls, workers,
                                pressed, started, errors >>
           ELSE App_month_done(cb.year, cb.month, cb.rc)
    /\ UNCHANGED jobVars

InitApp ==
    /\ pc = "shell" /\ rc = -1
    /\ total = 0 /\ uiCur = 0 /\ uiPending = 0
    /\ key = << >> /\ pos_txt = << >>
    /\ idx = 0 /\ total_ok = 0
    /\ saved = NoSave
    /\ log_csv = NoFile
    /\ files = {}
    /\ summary = NoSummary
    /\ attempt = 0
    /\ sd = NoSd /\ sess = NoSess /\ mn = NoMn /\ visited = << >>
    /\ AppIdle

NextApp == PressMonth \/ PressYear \/ PressStop \/ ExecStart \/ ExecFinish \/ RunCallback
SpecApp == InitApp /\ [][NextApp]_vars

(***************************************************************************)
(* Claims.                                                                 *)
(***************************************************************************)
MnStates == { "mn_click", "mn_wait", "mn_delay" }
\* the step in which move_next_distinct returns True (line 182, then line 272)
MnReturnsTrue == pc \in MnStates /\ pc' = "read_key"

\* C1: move_next_distinct returns True only when, after a next-control was
\* clicked in this call, the position key shown by the site differs from
\* the key passed in; a click alone never yields True.
C1_AdvanceOnlyOnKeyChange ==
    [][ MnReturnsTrue =>
          /\ mn.clicks >= 1
          /\ KeyText(uiCur, total) # key
          /\ mn'.observed = KeyText(uiCur, total)
          /\ idx' = idx + 1 ]_vars
\* an advance that succeeded on a retry, after a click that changed nothing
C1_Witness == pc = "read_key" /\ mn.result = "true" /\ mn.clicks >= 2 /\ idx = 2

\* C2: whenever save_download returns a path, that path names no file
\* already in the output directory (no existing file is overwritten).
C2_NoOverwrite ==
    [][ (idx' = idx + 1 /\ saved'.ok) => saved'.name \notin files ]_vars

\* C3: the loop tests for the last result only after a row was processed;
\* when the key read again after a row is readable and shows
\* current >= total the loop ends without another move_next_distinct call,
\* and a single-result list leaves exactly one ledger row.
C3_StopAtLastResult ==
    /\ [][ (pc = "reread" /\ pc' # "reread" /\ pos_txt' # << >> /\ uiCur >= total)
             => (pc' = "summary" /\ mn' = mn /\ uiPending' = uiPending) ]_vars
    /\ [][ (pc # "summary" /\ pc' = "summary")
             => (log_csv'.rows[idx + 1][1] = Dec(idx) /\ Len(log_csv'.rows) = idx + 1) ]_vars
    /\ [](total = 1 /\ pc = "done" => Len(log_csv.rows) = 2 /\ idx = 1)
\* a single-result job that ended at the 1 / 1 test, without any advance
C3_Witness ==
    pc = "done" /\ total = 1 /\ pos_txt = KeyText(1, 1) /\ mn.calls = 0
    /\ Len(log_csv.rows) = 2

\* C4: once the job has created it, the ledger is the header followed by
\* complete rows with indices 1, 2, ..., k in order, and row k is in the
\* ledger before any advance toward row k + 1 is attempted.
C4_LedgerContiguous ==
    pc \notin { "main", "mainloop", "start", "aborted" } =>
      /\ log_csv.exists
      /\ Len(log_csv.rows) >= 1
      /\ log_csv.rows[1] = Header
      /\ \A i \in 2..Len(log_csv.rows) :
           /\ Len(log_csv.rows[i]) = 4
           /\ log_csv.rows[i][1] = Dec(i - 1)
           /\ log_csv.rows[i][2] \in { sOK, sERROR }
      /\ (pc \in { "read_key", "save", "append" } => Len(log_csv.rows) = idx)
      /\ (pc \in MnStates \cup { "reread", "summary", "done" }
            => Len(log_csv.rows) = idx + 1)
      /\ (pc = "crashed" => Len(log_csv.rows) = (IF idx = 0 THEN 1 ELSE idx))
\* an advance toward row 3 under way with rows 1 and 2 in the ledger
C4_Witness == pc = "mn_wait" /\ idx = 2 /\ Len(log_csv.rows) = 3

\* C5: for every ledger, the ok and error totals of its summary add up to
\* the number of its data rows.
C5_TotalsCoverRows ==
    pc = "resummarized" =>
      summary.js.ok + summary.js.error
        = (IF log_csv.exists /\ Len(log_csv.rows) >= 1 THEN Len(log_csv.rows) - 1 ELSE 0)
\* a summarised ledger holding rows of both kinds
C5_Witness ==
    pc = "resummarized" /\ summary.js.ok >= 1 /\ summary.js.error >= 1

\* the ledger holds no OK row
NoOkRow == \A i \in 2..Len(log_csv.rows) : log_csv.rows[i][2] # sOK
ZeroJs == [ ok |-> 0, error |-> 0, por_prefijo |-> << >> ]
\* C6 as stated: when the loop has exited the summary is written, and a job
\* in which no row produced a download has the all-zero summary.
C6_AllZeroSummary ==
    pc = "done" => (summary.written /\ (NoOkRow => summary.js = ZeroJs))
\* C6 as amended: when the loop has exited the summary is written, and a job
\* in which no row produced a download has ok = 0, no prefix bucket and
\* error equal to the number of rows processed, which is at least 1.
C6_SummaryOfFailedRows ==
    pc = "done" =>
      /\ summary.written
      /\ rc = 0
      /\ (NoOkRow =>
            /\ summary.js.ok = 0
            /\ summary.js.por_prefijo = << >>
            /\ summary.js.error = idx
            /\ summary.js.error >= 1)
\* an empty result set: the job is done and its summary counts one ERROR row
C6_Witness ==
    pc = "done" /\ total = 0 /\ summary.written /\ summary.js.error = 1
    /\ summary.js.ok = 0

\* the response is successful and its body begins with %PDF
RespIsPdf(resp) == ~resp.raised /\ resp.ok /\ StartsWith(resp.body, PdfMagic)
\* C7: when the direct fetch does not yield a successful response whose
\* body begins with %PDF, save_download does not return it as a success,
\* writes no file from it and attempts the triggered-download fallback.
C7_BadResponseFallsBack ==
    [][ (idx' = idx + 1 /\ sd'.fetched /\ ~RespIsPdf(sd'.resp)) =>
          /\ sd'.via # "direct"
          /\ sd'.fallback
          /\ (saved'.ok <=> sd'.via = "fallback")
          /\ (sd'.via = "none" => files' = files) ]_vars
\* a successful response with an HTML body, then a download from the fallback
C7_Witness ==
    /\ sd.fetched /\ ~sd.resp.raised /\ sd.resp.ok
    /\ ~StartsWith(sd.resp.body, PdfMagic)
    /\ sd.via = "fallback" /\ saved.ok

\* the step that runs a posted _month_done callback
DoneCallback ==
    afterQ # << >> /\ Head(afterQ).kind = "done" /\ afterQ' = Tail(afterQ)
\* C8: a stop requested while a month is running does not interrupt that
\* month; after it no further month is started, and the run ends only in
\* the _month_done of the month in flight.
C8_StopAtMonthBoundary ==
    [][ /\ ((~stop_requested /\ stop_requested') =>
              /\ running /\ running'
              /\ workers' = workers /\ afterQ' = afterQ /\ started' = started)
        /\ ((stop_requested /\ running) =>
              /\ started' = started
              /\ workers' \subseteq { [ w EXCEPT !.phase = "process" ] : w \in workers }
              /\ (~running' => DoneCallback /\ workers = {}))
      ]_vars
\* a year run stopped during a month: that month ended, no other was started
C8_Witness ==
    /\ pressed.kind = "year" /\ stop_requested /\ ~running /\ errors = 0
    /\ Len(started) = 2 /\ status = StatusCompleted

\* C9: at most one month is in flight at any time, a month in flight or
\* awaiting its _month_done is always the last one started, and a year run
\* starts months 1, 2, ... of its year in ascending order, each once, up to
\* 12 when it is neither stopped nor failed.
C9_OneMonthAtATime ==
    /\ Cardinality(workers) <= 1
    /\ Cardinality(workers)
         + Cardinality({ i \in 1..Len(afterQ) : afterQ[i].kind = "done" }) <= 1
    /\ \A w \in workers :
         started # << >> /\ << w.year, w.month >> = started[Len(started)]
    /\ (running <=> (workers # {} \/ \E i \in 1..Len(afterQ) : afterQ[i].kind = "done"))
    /\ (pressed.kind = "year" =>
          /\ Len(started) <= 12
          /\ \A i \in 1..Len(started) : started[i] = << pressed.year, i >>
          /\ queue \in { << >>, [ i \in 1..(12 - Len(started)) |->
                                    << pressed.year, Len(started) + i >> ] }
          /\ (~running /\ ~stop_requested /\ errors = 0 => Len(started) = 12))
    /\ (pressed.kind = "month" => Len(started) = 1 /\ queue = << >>)
\* a year run that went through its twelve months
C9_Witness ==
    pressed.kind = "year" /\ ~running /\ Len(started) = 12 /\ errors = 0

\* C10: the _month_done of a month that ended with a non-zero exit code
\* clears the queue, starts no month, reports the failure and leaves the
\* shell idle; nothing runs after it until a button is pressed again.
C10_FailureHaltsQueue ==
    /\ [][ (DoneCallback /\ Head(afterQ).rc # 0) =>
             /\ ~running' /\ ~controls'
             /\ queue' = << >>
             /\ started' = started
             /\ workers' = workers
             /\ errors' = errors + 1
             /\ status' = StatusError(Head(afterQ).year, Head(afterQ).month) ]_vars
    /\ [](errors > 0 => ~running /\ workers = {} /\ queue = << >> /\ errors = 1)
\* a year run whose third month failed
C10_Witness ==
    /\ pressed.kind = "year" /\ errors = 1 /\ Len(started) = 3
    /\ status = StatusError(pressed.year, 3) /\ ~running

\* states in which the process has ended
Ended == { "done", "crashed", "aborted" }
\* C11: with the month-run directive the process runs one month job and never
\* the shell; it ends with exit code 0 when the run completed, an empty
\* result list included, and with a non-zero exit code when the search
\* session raised.
C11_RunMonthExitCodes ==
    /\ [][ /\ (pc' = "start" => pc = "main")
           /\ (pc = "start" => pc' \in { "session", "aborted" })
           /\ (pc # "main" => pc' # "mainloop")
           /\ (pc = "session" /\ pc' = "crashed" => rc' # 0) ]_vars
    /\ [](pc = "mainloop" => rc = -1 /\ idx = 0 /\ ~summary.written)
    /\ [](pc \notin { "main", "mainloop" } => AppIdle)
    /\ [](pc = "done" => rc = 0 /\ summary.written)
    /\ [](pc \in { "crashed", "aborted" } => rc # 0 /\ ~summary.written)
    /\ [](rc = -1 <=> pc \notin Ended)
\* a completed run over an empty result list
C11_Witness == pc = "done" /\ rc = 0 /\ total = 0 /\ idx = 1 /\ AppIdle

\* C12: when save_download returned None for row idx, the job's next step
\* appends exactly one ERROR row with index idx and the job goes on: the key
\* is read again and, unless it shows the last result, move_next_distinct
\* is called.
C12_NoneIsErrorRow ==
    /\ [][ /\ (pc = "append" /\ pc' # pc /\ ~saved.ok =>
                 /\ log_csv'.rows
                      = Append(log_csv.rows, << Dec(idx), sERROR, << >>, sSinPdf >>)
                 /\ pc' = "reread" /\ rc' = -1 /\ idx' = idx /\ total_ok' = total_ok)
           /\ (pc = "reread" /\ pc' # pc =>
                 /\ log_csv' = log_csv /\ rc' = -1
                 /\ pc' = (IF IsLastResult(pos_txt') THEN "summary" ELSE "mn_click")
                 /\ (pc' = "mn_click" => mn'.calls = mn.calls + 1)) ]_vars
    /\ [](pc \in MnStates \cup { "reread" } /\ ~saved.ok =>
            /\ Cardinality({ k \in 2..Len(log_csv.rows) :
                               log_csv.rows[k][1] = Dec(idx) }) = 1
            /\ log_csv.rows[Len(log_csv.rows)][1] = Dec(idx)
            /\ log_csv.rows[Len(log_csv.rows)][2] = sERROR)
\* row 1 had no document, the advance succeeded and row 2 is being processed
C12_Witness ==
    /\ pc = "save" /\ idx = 2 /\ Len(log_csv.rows) = 2
    /\ log_csv.rows[2] = << Dec(1), sERROR, << >>, sSinPdf >>

\* the data rows of the ledger whose estado reads st once trimmed and
\* upper-cased
RowsInState(st) ==
    { k \in 2..Len(log_csv.rows) : Upper(Strip(log_csv.rows[k][2])) = st }
\* the bucket of a file name: its leading run of non-digits, trimmed of the
\* separators "-", "_" and " " and upper-cased; OTRO when that is empty
BucketOf(name) ==
    LET run == SubSeq(name, 1, RunEnd(name, 1, Range(name) \ DigitSet))
        b == Upper(StripSet(run, { "-", "_", " " }))
    IN  IF b = << >> THEN sOTRO ELSE b
Summarised == pc \in { "resummarized", "resummarized_again" }
\* C13: the summary of a ledger reports the numbers of OK and of ERROR rows
\* and, per bucket of the OK rows' file names, the number of those rows,
\* ordered by descending count and then ascending key; the ledger
\* [OK AUTO-123.pdf, OK AUTO-456.pdf, OK SENT_789.pdf, ERROR ""] gives
\* ok = 3, error = 1 and AUTO: 2, SENT: 1.
C13_SummaryContent ==
    (Summarised /\ log_csv.exists /\ Len(log_csv.rows) >= 1) =>
      LET pp == summary.js.por_prefijo
          oks == RowsInState(sOK)
      IN  /\ summary.js.ok = Cardinality(oks)
          /\ summary.js.error = Cardinality(RowsInState(sERROR))
          /\ { pp[i][1] : i \in 1..Len(pp) } = { BucketOf(log_csv.rows[k][3]) : k \in oks }
          /\ \A i \in 1..Len(pp) :
               pp[i][2] = Cardinality({ k \in oks : BucketOf(log_csv.rows[k][3]) = pp[i][1] })
          /\ \A i, j \in 1..Len(pp) :
               i < j => \/ pp[i][2] > pp[j][2]
                        \/ (pp[i][2] = pp[j][2] /\ StrLess(pp[i][1], pp[j][1]))
          /\ (log_csv = ExampleLedger =>
                summary.js = [ ok |-> 3, error |-> 1,
                               por_prefijo |-> << << << "A","U","T","O" >>, 2 >>,
                                                  << << "S","E","N","T" >>, 1 >> >> ])
\* the summary of a ledger whose larger bucket comes later in key order
C13_Witness ==
    /\ pc = "resummarized" /\ log_csv = CountOrderLedger
    /\ summary.js.por_prefijo = << << << "S","E","N","T" >>, 2 >>,
                                   << << "A","U","T","O" >>, 1 >> >>

ZeroText ==
    << "O","K",":"," ","0","\n", "E","R","R","O","R",":"," ","0","\n",
       "P","O","R"," ","P","R","E","F","I","J","O",":","\n",
       "(","s","i","n"," ","d","a","t","o","s",")","\n" >>
\* C15: on a ledger that is missing, of zero bytes or made of its header
\* only, the summary step completes and writes the all-zero summary.
C15_EmptyLedgerSummary ==
    (Summarised /\ (~log_csv.exists \/ Len(log_csv.rows) <= 1)) =>
      /\ summarize_log(log_csv) = [ ok |-> 0, error |-> 0, prefixes |-> NoCounter ]
      /\ summary.written
      /\ summary.js = [ ok |-> 0, error |-> 0, por_prefijo |-> << >> ]
      /\ summary.txt = ZeroText
\* the summary written for a ledger file of zero bytes
C15_Witness ==
    pc = "resummarized" /\ log_csv.exists /\ log_csv.rows = << >> /\ summary.written

\* C16: the rows displayed when save_download ran are consecutive rows of
\* the result list: every successful advance moved the list by exactly one
\* row, whatever the order in which the site applied the clicks.
C16_NoRowSkipped ==
    \A i \in 1..(Len(visited) - 1) : visited[i + 1] = visited[i] + 1

\* C17: a pass of move_next_distinct in which no next-control took the click
\* ends the call at once with False.
C17_NoControlReturnsAtOnce ==
    [][ (pc = "mn_click" /\ attempt' # attempt /\ mn'.clicks = mn.clicks) =>
          (pc' = "summary" /\ mn'.result = "false") ]_vars

\* C18: one call of move_next_distinct clicks a next-control at most 3
\* times; a click with no key change seen within the wait is followed by the
\* delay, and the delay after the third pass is followed by the return of
\* False.
C18_ThreeAttempts ==
    /\ [](mn.clicks <= 3 /\ attempt <= 3)
    /\ [](mn.result = "false" => attempt = 3 /\ pc \in { "summary", "done" })
    /\ [][ /\ (pc = "mn_click" /\ mn'.clicks = mn.clicks + 1 =>
                 pc' = (IF key # << >> THEN "mn_wait" ELSE "mn_delay"))
           /\ (pc = "mn_wait" /\ pc' # pc =>
                 \/ (pc' = "read_key" /\ KeyText(uiCur, total) # key)
                 \/ (pc' = "mn_delay" /\ attempt' = attempt /\ mn' = mn))
           /\ (pc = "mn_delay" /\ pc' # pc =>
                 /\ attempt' = attempt + 1
                 /\ pc' = (IF attempt' = 3 THEN "summary" ELSE "mn_click")
                 /\ mn'.result = (IF attempt' = 3 THEN "false" ELSE "none")) ]_vars
\* a call that clicked three times, never saw the key change and returned False
C18_Witness ==
    pc = "summary" /\ mn.result = "false" /\ mn.clicks = 3 /\ key # << >>

\* the session was opened: the browser was launched and the page loaded
SessionOpened ==
    /\ sess.ran /\ Len(sess.outs) >= 2
    /\ sess.outs[1] = "ok" /\ sess.outs[2] = "ok"
\* C19 as stated: once the session is opened, whichever of the selection,
\* date-panel, date-entry, submission and quiescence steps fail, nothing is
\* raised and control reaches the first-row read.
C19_AllFailuresSwallowed ==
    SessionOpened => (pc \in { "read_key", "first_row" } /\ rc = -1)
\* C19 as amended: failures inside click_if_possible and inside the
\* date-panel try, and elements missing for an evaluate, are swallowed and
\* never keep control from the first-row read; an exception of launch,
\* goto, an evaluate call, the Buscar click or the quiescence wait is
\* raised, ends the session at that step and the process with a non-zero
\* exit code.
C19_GuardedFailuresSwallowed ==
    sess.ran =>
      LET n == Len(sess.outs)
      IN  /\ \A i \in 1..n :
               /\ (sess.outs[i] \in { "fails", "missing" } =>
                     (i < n \/ pc \in { "read_key", "first_row" }))
               /\ (sess.outs[i] = "raises" =>
                     /\ i = n /\ pc = "crashed" /\ rc # 0
                     /\ SessionSteps[i] \notin GuardedSteps)
          /\ ((\A i \in 1..n : sess.outs[i] # "raises") =>
                /\ n = Len(SessionSteps)
                /\ pc \in { "read_key", "first_row" } /\ rc = -1 /\ idx = 1)
\* every guarded step failed and every evaluate missed its element, and the
\* first key of the loop was read
C19_Witness ==
    /\ pc = "first_row" /\ sess.ran
    /\ \A i \in 1..Len(sess.outs) :
         /\ (SessionSteps[i] \in GuardedSteps => sess.outs[i] = "fails")
         /\ (SessionSteps[i] \in EvalSteps => sess.outs[i] = "missing")

\* C20: the file name of every path save_download returns, from the direct
\* fetch or from the triggered download, ends in ".pdf".
C20_NameEndsInPdf ==
    saved.ok => EndsWith(saved.name, DotPdf)

\* C21: when the job is done, the summary read back from the ledger agrees
\* with the run: ok is the run's total_ok, error the number of rows for
\* which save_download returned None, and rows an earlier run left in the
\* month's ledger are not counted.
C21_SummaryMatchesRun ==
    /\ [][ pc = "start" /\ pc' = "session" => log_csv'.rows = << Header >> ]_vars
    /\ [](pc = "done" =>
            /\ Len(visited) = idx
            /\ summary.js.ok = total_ok
            /\ summary.js.error = Len(visited) - total_ok
            /\ Len(log_csv.rows) - 1 = Len(visited))
\* a run into a directory holding an earlier run's OK row and its document:
\* nothing was saved this time and the summary counts no OK row
C21_Witness ==
    /\ pc = "done" /\ files = StaleFiles /\ total_ok = 0 /\ idx = 2
    /\ summary.js = [ ok |-> 0, error |-> 2, por_prefijo |-> << >> ]

\* C22: when the key read before a row is empty and the loop goes on to
\* move_next_distinct, the call never waits and never returns True: it
\* clicks at most 3 times and returns False, and the job ends after that
\* row with the one ledger row written for it.
C22_EmptyKeyEndsJob ==
    /\ [](key = << >> /\ pc \in MnStates =>
            /\ pc # "mn_wait"
            /\ mn.clicks <= 3 /\ mn.result = "none"
            /\ Len(log_csv.rows) = idx + 1)
    /\ [][ (key = << >> /\ pc \in MnStates /\ pc' \notin MnStates) =>
             /\ pc' = "summary" /\ mn'.result = "false"
             /\ idx' = idx /\ log_csv' = log_csv ]_vars
\* the key of row 2 was unreadable: three clicks, the site moved on, and the
\* call returned False
C22_Witness ==
    /\ pc = "summary" /\ key = << >> /\ mn.result = "false" /\ mn.clicks = 3
    /\ idx = 2 /\ Len(log_csv.rows) = 3 /\ uiCur = 3

\* states of the traversal loop, lines 245-272
LoopStates == { "read_key", "save", "append", "reread" } \cup MnStates
\* number of data rows in the ledger
DataRowCount == IF Len(log_csv.rows) >= 1 THEN Len(log_csv.rows) - 1 ELSE 0
====
